---- MODULE Spec2Model ----
(***************************************************************************)
(* Model of the schedy request handlers (src/main.py) over the relational  *)
(* schema of src/models.py.                                                *)
(*                                                                         *)
(* The stored state is the record db with one field per table; a table is  *)
(* a set of rows.  Every handler is an operator from the stored state and  *)
(* the request's inputs to an outcome [result, db]: result is the error    *)
(* code of the redirect ("OK" for the plain redirect, "INTEGRITY_ERROR"    *)
(* for a commit the schema's unique constraints reject, which rolls the    *)
(* transaction back), db the stored state the request leaves behind.       *)
(*                                                                         *)
(* Encodings.  A datetime is a number of time slots, SlotsPerDay of them   *)
(* per day; None is NoneDt for a datetime, NoUser for a user; a text is a  *)
(* sequence of one-character strings, and the None that clip() returns is  *)
(* the empty sequence (clip never returns the empty string).               *)
(* Event.ends_at, EventTimeSuggestion.proposed_ends_at and .comment are    *)
(* the attributes src/main.py reads and writes (main.py:701, 853, 854).    *)
(***************************************************************************)
EXTENDS Integers, Sequences, FiniteSets, TLC

(* ---- bounds of the model ---- *)
NumUsers == 2
MaxEvents == 2
MaxSuggestions == 2
MaxDay == 0
MaxOps == 4
SlotsPerDay == 3

(* ---- program constants ---- *)
MAX_TEXT == 300

NoUser == 0
NoneDt == -1
NoText == << >>

Users == 1..NumUsers

TxtYes == <<"y", "e", "s">>
TxtMaybe == <<"m", "a", "y", "b", "e">>
TxtNo == <<"n", "o">>
TxtUp == <<"u", "p">>
TxtDown == <<"d", "o", "w", "n">>

TxtSoon == <<"s", "o", "o", "n">>

ALLOWED_STATUSES_loose == {TxtYes, TxtMaybe, TxtNo, TxtSoon}

ALLOWED_STATUSES == {TxtYes, TxtMaybe, TxtNo}

ALLOWED_VOTES_loose == {TxtUp, TxtDown, TxtYes}

ALLOWED_VOTES == {TxtUp, TxtDown}

(* ---- str.strip(), str.lower(), clip() ---- *)
UpperChars == <<"A", "B", "D", "E", "M", "N", "O", "P", "S", "U", "W", "Y">>
LowerChars == <<"a", "b", "d", "e", "m", "n", "o", "p", "s", "u", "w", "y">>
OtherChars == {" ", "\t", "\n", "k", "x"}
Chars ==
  {UpperChars[i] : i \in 1..Len(UpperChars)}
    \cup {LowerChars[i] : i \in 1..Len(LowerChars)} \cup OtherChars

IsSpace(c) == c \in {" ", "\t", "\n"}

LowerMap ==
  [c \in Chars |->
     IF \E i \in 1..Len(UpperChars) : UpperChars[i] = c
     THEN LowerChars[CHOOSE i \in 1..Len(UpperChars) : UpperChars[i] = c]
     ELSE c]

LowerChar(c) == LowerMap[c]

RECURSIVE LStrip(_)
LStrip(s) ==
  IF s = << >> THEN s
  ELSE IF IsSpace(Head(s)) THEN LStrip(Tail(s)) ELSE s

RECURSIVE RStrip(_)
RStrip(s) ==
  IF s = << >> THEN s
  ELSE IF IsSpace(s[Len(s)]) THEN RStrip(SubSeq(s, 1, Len(s) - 1)) ELSE s

Strip(s) == RStrip(LStrip(s))

Lower(s) == [i \in 1..Len(s) |-> LowerChar(s[i])]

StripLower(s) == Lower(Strip(s))

clip(s) == Strip(s)

(* ---- parse_dt ---- *)
(* A date field is a day number or BadField (a string fromisoformat        *)
(* rejects); a time field is a slot of the day or BadField.               *)
BadField == -1
RawDates == {BadField} \cup (0..MaxDay)
RawTimes == {BadField} \cup (0..(SlotsPerDay - 1))

parse_dt_lenient(d, t) ==
  IF d = BadField THEN NoneDt ELSE d * SlotsPerDay + (IF t = BadField THEN 0 ELSE t)

parse_dt(d, t) ==
  IF d = BadField \/ t = BadField THEN NoneDt ELSE d * SlotsPerDay + t

(* ---- sessions ---- *)
(* A cookie is absent, carries a bad signature, or is a signed token for   *)
(* a user id (0 and NumUsers + 1 are ids of no user).                      *)
NoCookie == -2
BadSignature == -1
Cookies == {NoCookie, BadSignature} \cup (0..(NumUsers + 1))

read_session_token(token) == IF token = BadSignature THEN NoUser ELSE token

get_current_user_trusting(cookie) ==
  IF cookie = NoCookie THEN NoUser ELSE read_session_token(cookie)

get_current_user(cookie) ==
  IF cookie = NoCookie THEN NoUser
  ELSE LET user_id == read_session_token(cookie) IN
       IF user_id = NoUser THEN NoUser
       ELSE IF user_id \in Users THEN user_id ELSE NoUser

(* db: the stored tables; last: the last request that was served with the *)
(* plain redirect; pre: the tables as that request found them; ops: how   *)
(* many such requests were served; sess: the database sessions of the     *)
(* requests in progress, when requests are followed statement by          *)
(* statement (none when a request is served in one step).                 *)
VARIABLES db, last, pre, ops, sess

vars == <<db, last, pre, ops, sess>>

NoSessions == << >>

EmptyDb ==
  [events |-> {}, invites |-> {}, responses |-> {}, suggestions |-> {}, votes |-> {}]

(* ---- unique constraints and commit ---- *)
InviteKey(r) == <<r.event_id, r.user_id>>
ResponseKey(r) == <<r.event_id, r.user_id>>
SuggestionKey(r) == <<r.event_id, r.proposed_starts_at>>
VoteKey(r) == <<r.suggestion_id, r.user_id>>

(* The inserts clash with a stored row, or with each other, on a key. *)
Violates(old_keys, new_keys, new_rows) ==
  \/ old_keys \cap new_keys # {}
  \/ Cardinality(new_keys) # Cardinality(new_rows)

NoRows == [invites |-> {}, responses |-> {}, suggestions |-> {}, votes |-> {}]

(* old: the state before the transaction; upd: old with the transaction's  *)
(* updates and deletes applied; new: the rows the transaction inserts.     *)
commit(old, upd, new) ==
  IF \/ Violates({InviteKey(r) : r \in upd.invites}, {InviteKey(r) : r \in new.invites},
                 new.invites)
     \/ Violates({ResponseKey(r) : r \in upd.responses}, {ResponseKey(r) : r \in new.responses},
                 new.responses)
     \/ Violates({SuggestionKey(r) : r \in upd.suggestions}, {SuggestionKey(r) : r \in new.suggestions},
                 new.suggestions)
     \/ Violates({VoteKey(r) : r \in upd.votes}, {VoteKey(r) : r \in new.votes},
                 new.votes)
  THEN [result |-> "INTEGRITY_ERROR", db |-> old]
  ELSE [result |-> "OK",
        db |-> [events |-> upd.events,
                invites |-> upd.invites \cup new.invites,
                responses |-> upd.responses \cup new.responses,
                suggestions |-> upd.suggestions \cup new.suggestions,
                votes |-> upd.votes \cup new.votes]]

Fail(code, d) == [result |-> code, db |-> d]

(* ---- queries ---- *)
EventById(d, event_id) == {e \in d.events : e.id = event_id}

SuggestionById(d, suggestion_id) == {s \in d.suggestions : s.id = suggestion_id}

(* The outer join of events with their invites, filtered and projected. *)
NullInvite == [event_id |-> 0, user_id |-> 0, invited_by_user_id |-> 0]

visible_events_query_inner(d, user) ==
  IF user = NoUser THEN {e \in d.events : e.id = -1}
  ELSE LET rows == {r \in {<<e, i>> : e \in d.events, i \in d.invites} :
                      r[2].event_id = r[1].id}
       IN {r[1] : r \in {x \in rows :
                           \/ x[1].created_by_user_id = user
                           \/ x[2].user_id = user}}

visible_events_query(d, user) ==
  IF user = NoUser THEN {e \in d.events : e.id = -1}
  ELSE LET joined ==
             {<<e, i>> : e \in d.events, i \in d.invites \cup {NullInvite}}
           rows ==
             {r \in joined :
                \/ r[2].event_id = r[1].id
                \/ r[2] = NullInvite /\ ~\E i \in d.invites : i.event_id = r[1].id}
       IN {r[1] : r \in {x \in rows :
                           \/ x[1].created_by_user_id = user
                           \/ x[2] # NullInvite /\ x[2].user_id = user}}

is_event_visible_to_user_any(d, event_id, user) ==
  EventById(d, event_id) # {}

is_event_visible_to_user(d, event_id, user) ==
  LET e == EventById(d, event_id) IN
  IF e = {} THEN FALSE
  ELSE IF \E x \in e : x.created_by_user_id = user THEN TRUE
  ELSE \E inv \in d.invites : inv.event_id = event_id /\ inv.user_id = user

(* ---- autoincrement primary keys (SQLite rowid: largest id in use + 1) ---- *)
RECURSIVE MaxId(_)
MaxId(rows) ==
  IF rows = {} THEN 0
  ELSE LET r == CHOOSE x \in rows : TRUE
           m == MaxId(rows \ {r})
       IN IF r.id > m THEN r.id ELSE m

NextId(rows) == MaxId(rows) + 1

(* ---- POST /add ---- *)
(* title and description are validated but not kept in the model, and     *)
(* neither is a suggestion's comment: no handler reads them back.         *)
add_event(d, cookie, description, start_date, start_time, end_date, end_time, invitee_ids) ==
  LET user == get_current_user(cookie)
      desc == clip(description)
      starts_at == parse_dt(start_date, start_time)
      ends_at == parse_dt(end_date, end_time)
  IN
  IF user = NoUser THEN Fail("LOGIN_REQUIRED", d)
  ELSE IF desc # NoText /\ Len(desc) > MAX_TEXT THEN Fail("DESC_TOO_LONG", d)
  ELSE IF starts_at = NoneDt \/ ends_at = NoneDt \/ ends_at <= starts_at
  THEN Fail("BAD_RANGE", d)
  ELSE
    LET e == [id |-> NextId(d.events), starts_at |-> starts_at, ends_at |-> ends_at,
              created_by_user_id |-> user]
        d1 == [d EXCEPT !.events = @ \cup {e}]
        c2 == commit(d1, d1,
                [NoRows EXCEPT !.responses =
                   {[event_id |-> e.id, user_id |-> user, status |-> TxtYes,
                     comment |-> NoText]}])
        picked == {u0 \in Users : u0 \in invitee_ids}
        fresh == {u0 \in picked :
                    /\ u0 # user
                    /\ ~\E i \in c2.db.invites : i.event_id = e.id /\ i.user_id = u0}
    IN IF c2.result # "OK" THEN c2
       ELSE IF invitee_ids = {} THEN c2
       ELSE commit(c2.db, c2.db,
              [NoRows EXCEPT !.invites =
                 {[event_id |-> e.id, user_id |-> u0, invited_by_user_id |-> user] :
                    u0 \in fresh}])

(* ---- POST /invite ---- *)
invite_to_event_open(d, cookie, event_id, invitee_ids) ==
  LET user == get_current_user(cookie)
      e == EventById(d, event_id)
      picked == {u0 \in Users : u0 \in invitee_ids}
      fresh == {u0 \in picked :
                  /\ u0 # user
                  /\ ~\E i \in d.invites : i.event_id = event_id /\ i.user_id = u0}
  IN
  IF user = NoUser THEN Fail("LOGIN_REQUIRED", d)
  ELSE IF e = {} THEN Fail("NO_EVENT", d)
  ELSE IF invitee_ids = {} THEN Fail("OK", d)
  ELSE commit(d, d,
         [NoRows EXCEPT !.invites =
            {[event_id |-> event_id, user_id |-> u0, invited_by_user_id |-> user] :
               u0 \in fresh}])

invite_to_event(d, cookie, event_id, invitee_ids) ==
  LET user == get_current_user(cookie)
      e == EventById(d, event_id)
      picked == {u0 \in Users : u0 \in invitee_ids}
      fresh == {u0 \in picked :
                  /\ u0 # user
                  /\ ~\E i \in d.invites : i.event_id = event_id /\ i.user_id = u0}
  IN
  IF user = NoUser THEN Fail("LOGIN_REQUIRED", d)
  ELSE IF e = {} THEN Fail("NO_EVENT", d)
  ELSE IF \E x \in e : x.created_by_user_id # user THEN Fail("NOT_CREATOR", d)
  ELSE IF invitee_ids = {} THEN Fail("OK", d)
  ELSE commit(d, d,
         [NoRows EXCEPT !.invites =
            {[event_id |-> event_id, user_id |-> u0, invited_by_user_id |-> user] :
               u0 \in fresh}])

(* ---- POST /respond ---- *)
existing_response_of_event(d, event_id, user) ==
  {r \in d.responses : r.event_id = event_id}

existing_response(d, event_id, user) ==
  {r \in d.responses : r.event_id = event_id /\ r.user_id = user}

respond(d, cookie, event_id, status, comment) ==
  LET user == get_current_user(cookie)
      st == StripLower(status)
      cm == clip(comment)
      existing == existing_response(d, event_id, user)
  IN
  IF user = NoUser THEN Fail("LOGIN_REQUIRED", d)
  ELSE IF st \notin ALLOWED_STATUSES THEN Fail("BAD_STATUS", d)
  ELSE IF cm # NoText /\ Len(cm) > MAX_TEXT THEN Fail("COMMENT_TOO_LONG", d)
  ELSE IF ~is_event_visible_to_user(d, event_id, user) THEN Fail("FORBIDDEN", d)
  ELSE IF existing # {}
  THEN LET r == CHOOSE x \in existing : TRUE
       IN commit(d,
            [d EXCEPT !.responses =
               (@ \ {r}) \cup {[r EXCEPT !.status = st, !.comment = cm]}],
            NoRows)
  ELSE commit(d, d,
         [NoRows EXCEPT !.responses =
            {[event_id |-> event_id, user_id |-> user, status |-> st, comment |-> cm]}])

(* ---- POST /suggest_time ---- *)
proposer_no_clear(r) == [r EXCEPT !.status = TxtNo, !.comment = NoText]

proposer_no(r) == [r EXCEPT !.status = TxtNo]

suggest_time(d, cookie, event_id, start_date, start_time, end_date, end_time, comment) ==
  LET user == get_current_user(cookie)
      p_start == parse_dt(start_date, start_time)
      p_end == parse_dt(end_date, end_time)
      cm == clip(comment)
      existing == {s \in d.suggestions :
                     /\ s.event_id = event_id
                     /\ s.proposed_starts_at = p_start
                     /\ s.proposed_ends_at = p_end}
      newS == IF existing # {} THEN {}
              ELSE {[id |-> NextId(d.suggestions), event_id |-> event_id,
                     proposed_by_user_id |-> user, proposed_starts_at |-> p_start,
                     proposed_ends_at |-> p_end, accepted |-> FALSE]}
      rs == {r \in d.responses : r.event_id = event_id /\ r.user_id = user}
  IN
  IF user = NoUser THEN Fail("LOGIN_REQUIRED", d)
  ELSE IF p_start = NoneDt \/ p_end = NoneDt \/ p_end <= p_start THEN Fail("BAD_RANGE", d)
  ELSE IF cm # NoText /\ Len(cm) > MAX_TEXT THEN Fail("COMMENT_TOO_LONG", d)
  ELSE IF ~is_event_visible_to_user(d, event_id, user) THEN Fail("FORBIDDEN", d)
  ELSE IF rs # {}
  THEN LET r == CHOOSE x \in rs : TRUE
       IN commit(d,
            [d EXCEPT !.responses = (@ \ {r}) \cup {proposer_no(r)}],
            [NoRows EXCEPT !.suggestions = newS])
  ELSE commit(d, d,
         [NoRows EXCEPT !.suggestions = newS,
                        !.responses =
                          {[event_id |-> event_id, user_id |-> user, status |-> TxtNo,
                            comment |-> NoText]}])

(* ---- POST /vote_time ---- *)
vote_time_sticky(d, cookie, suggestion_id, vote) ==
  LET user == get_current_user(cookie)
      v == StripLower(vote)
      s == SuggestionById(d, suggestion_id)
      existing == {x \in d.votes : x.suggestion_id = suggestion_id /\ x.user_id = user}
  IN
  IF user = NoUser THEN Fail("LOGIN_REQUIRED", d)
  ELSE IF v \notin ALLOWED_VOTES THEN Fail("BAD_VOTE", d)
  ELSE IF s = {} THEN Fail("NO_SUGGESTION", d)
  ELSE IF ~is_event_visible_to_user(d, (CHOOSE x \in s : TRUE).event_id, user)
  THEN Fail("FORBIDDEN", d)
  ELSE IF existing # {}
  THEN LET x == CHOOSE y \in existing : TRUE
       IN commit(d, [d EXCEPT !.votes = (@ \ {x}) \cup {[x EXCEPT !.vote = v]}], NoRows)
  ELSE commit(d, d,
         [NoRows EXCEPT !.votes =
            {[suggestion_id |-> suggestion_id, user_id |-> user, vote |-> v]}])

vote_time(d, cookie, suggestion_id, vote) ==
  LET user == get_current_user(cookie)
      v == StripLower(vote)
      s == SuggestionById(d, suggestion_id)
      existing == {x \in d.votes : x.suggestion_id = suggestion_id /\ x.user_id = user}
  IN
  IF user = NoUser THEN Fail("LOGIN_REQUIRED", d)
  ELSE IF v \notin ALLOWED_VOTES THEN Fail("BAD_VOTE", d)
  ELSE IF s = {} THEN Fail("NO_SUGGESTION", d)
  ELSE IF ~is_event_visible_to_user(d, (CHOOSE x \in s : TRUE).event_id, user)
  THEN Fail("FORBIDDEN", d)
  ELSE IF existing # {}
  THEN LET x == CHOOSE y \in existing : TRUE
       IN IF x.vote = v
          THEN commit(d, [d EXCEPT !.votes = @ \ {x}], NoRows)
          ELSE commit(d, [d EXCEPT !.votes = (@ \ {x}) \cup {[x EXCEPT !.vote = v]}],
                 NoRows)
  ELSE commit(d, d,
         [NoRows EXCEPT !.votes =
            {[suggestion_id |-> suggestion_id, user_id |-> user, vote |-> v]}])

(* ---- POST /accept_time ---- *)
rescheduled_end_only(e, s) == [e EXCEPT !.ends_at = s.proposed_ends_at]

rescheduled_start_only(e, s) == [e EXCEPT !.starts_at = s.proposed_starts_at]

rescheduled(e, s) ==
  [e EXCEPT !.starts_at = s.proposed_starts_at, !.ends_at = s.proposed_ends_at]

mark_accepted_keep(suggestions, e, s) ==
  {IF x.event_id = e.id THEN [x EXCEPT !.accepted = (@ \/ x.id = s.id)] ELSE x :
     x \in suggestions}

mark_accepted(suggestions, e, s) ==
  {IF x.event_id = e.id THEN [x EXCEPT !.accepted = (x.id = s.id)] ELSE x :
     x \in suggestions}

reset_responses_own(responses, e, user) ==
  [kept |-> {r \in responses : ~(r.event_id = e.id /\ r.user_id = user)},
   added |-> {[event_id |-> e.id, user_id |-> user, status |-> TxtYes,
               comment |-> NoText]}]

reset_responses(responses, e, user) ==
  [kept |-> {r \in responses : r.event_id # e.id},
   added |-> {[event_id |-> e.id, user_id |-> user, status |-> TxtYes,
               comment |-> NoText]}]

accept_time(d, cookie, suggestion_id) ==
  LET user == get_current_user(cookie)
      ss == SuggestionById(d, suggestion_id)
  IN
  IF user = NoUser THEN Fail("LOGIN_REQUIRED", d)
  ELSE IF ss = {} THEN Fail("NO_SUGGESTION", d)
  ELSE
    LET s == CHOOSE x \in ss : TRUE
        es == EventById(d, s.event_id)
    IN
    IF es = {} THEN Fail("NO_EVENT", d)
    ELSE
      LET e == CHOOSE x \in es : TRUE IN
      IF e.created_by_user_id # user THEN Fail("NOT_CREATOR", d)
      ELSE
        LET rr == reset_responses(d.responses, e, user) IN
        commit(d,
          [d EXCEPT
             !.events = (@ \ {e}) \cup {rescheduled(e, s)},
             !.suggestions = mark_accepted(@, e, s),
             !.responses = rr.kept],
          [NoRows EXCEPT !.responses = rr.added])

(* ---- cleanup_past_events (run by GET / and GET /tasks) ---- *)
cleanup_past_events_keep_votes(d, t) ==
  LET past == {e \in d.events : e.ends_at < t}
      ids == {e.id : e \in past}
  IN [events |-> d.events \ past,
      invites |-> {i \in d.invites : i.event_id \notin ids},
      responses |-> {r \in d.responses : r.event_id \notin ids},
      suggestions |-> {s \in d.suggestions : s.event_id \notin ids},
      votes |-> d.votes]

cleanup_past_events(d, t) ==
  LET past == {e \in d.events : e.ends_at < t}
      ids == {e.id : e \in past}
      goneS == {s \in d.suggestions : s.event_id \in ids}
  IN [events |-> d.events \ past,
      invites |-> {i \in d.invites : i.event_id \notin ids},
      responses |-> {r \in d.responses : r.event_id \notin ids},
      suggestions |-> d.suggestions \ goneS,
      votes |-> {v \in d.votes : v.suggestion_id \notin {s.id : s \in goneS}}]

(* ---- request inputs ---- *)
LongText == [i \in 1..(MAX_TEXT + 1) |-> "x"]
OkText == <<" ", "o", "k">>
RawStatuses ==
  {<<" ", "Y", "e", "s">>, <<"M", "A", "Y", "B", "E", " ">>, <<"n", "o">>,
   TxtSoon}
RawVotes == {<<"U", "p", " ">>, <<"d", "o", "w", "n">>, <<"y", "e", "s">>}
EventIds == 1..(MaxEvents + 1)
SuggestionIds == 1..(MaxSuggestions + 1)
AllIds == 1..(NumUsers + 1)
InviteeLists == {{}} \cup {{u} : u \in AllIds} \cup {AllIds}

(* The four date and time fields of a form: every form that parses, and    *)
(* the forms with one unparsable field.                                    *)
RangeForms ==
  {f \in RawDates \X RawTimes \X RawDates \X RawTimes :
     \/ \A i \in 1..4 : f[i] # BadField
     \/ \E i \in 1..4 : f[i] = BadField /\ \A j \in (1..4) \ {i} : f[j] = 0}

GoodForm == <<0, 0, 0, 1>>

(* The requests the model sends.  A request with no valid session, or with *)
(* a text longer than MAX_TEXT, is sent with its other fields in order; a  *)
(* request from a logged-in user with texts in order takes every           *)
(* combination of its other fields.  The fields of a request are listed in *)
(* the order of the handler's parameters, after the cookie and the id of   *)
(* its target.                                                             *)
LoggedIn == {c \in Cookies : get_current_user(c) # NoUser}
LoggedOut == Cookies \ LoggedIn

BlankText == <<" ">>
RawMaybe == <<"M", "A", "Y", "B", "E", " ">>

AddFields(cookie) ==
  IF cookie \in LoggedIn
  THEN ({OkText} \X RangeForms \X InviteeLists) \cup ({LongText} \X {GoodForm} \X {AllIds})
  ELSE {OkText} \X {GoodForm} \X {AllIds}

InviteFields(cookie) == IF cookie \in LoggedIn THEN InviteeLists ELSE {AllIds}

RespondFields(cookie) ==
  IF cookie \in LoggedIn
  THEN (RawStatuses \X {BlankText}) \cup {<<RawMaybe, OkText>>, <<TxtYes, LongText>>}
  ELSE {<<TxtYes, OkText>>}

SuggestFields(cookie) ==
  IF cookie \in LoggedIn
  THEN (RangeForms \X {OkText}) \cup {<<GoodForm, LongText>>}
  ELSE {<<GoodForm, OkText>>}

(* The values datetime.now() takes: the wall clock, which the system may  *)
(* set back.                                                              *)
NowValues == 0..((MaxDay + 1) * SlotsPerDay)

Call(op, user, event_id, suggestion_id) ==
  [op |-> op, user |-> user, event_id |-> event_id, suggestion_id |-> suggestion_id]

Init ==
  /\ db = EmptyDb
  /\ ops = 0
  /\ pre = EmptyDb
  /\ last = Call("init", NoUser, 0, 0)
  /\ sess = NoSessions

(* A request that ends in an error code leaves every table as it was (its  *)
(* outcome's db is the db it started from), and is a stuttering step.      *)
Step(o, call) ==
  IF o.result = "OK"
  THEN db' = o.db /\ pre' = db /\ last' = call /\ ops' = ops + 1 /\ UNCHANGED sess
  ELSE UNCHANGED <<db, last, pre, ops, sess>>

AddEvent ==
  /\ ops < MaxOps
  /\ NextId(db.events) <= MaxEvents
  /\ \E cookie \in Cookies :
       \E f \in AddFields(cookie) :
         LET o == add_event(db, cookie, f[1], f[2][1], f[2][2], f[2][3], f[2][4], f[3])
         IN Step(o, Call("add_event", get_current_user(cookie), NextId(db.events), 0))

Invite ==
  /\ ops < MaxOps
  /\ \E cookie \in Cookies, event_id \in EventIds :
       \E invitee_ids \in InviteFields(cookie) :
         LET o == invite_to_event(db, cookie, event_id, invitee_ids)
         IN Step(o, Call("invite", get_current_user(cookie), event_id, 0))

Respond ==
  /\ ops < MaxOps
  /\ \E cookie \in Cookies, event_id \in EventIds :
       \E f \in RespondFields(cookie) :
         LET o == respond(db, cookie, event_id, f[1], f[2])
         IN Step(o, Call("respond", get_current_user(cookie), event_id, 0))

SuggestTime ==
  /\ ops < MaxOps
  /\ NextId(db.suggestions) <= MaxSuggestions
  /\ \E cookie \in Cookies, event_id \in EventIds :
       \E f \in SuggestFields(cookie) :
         LET o == suggest_time(db, cookie, event_id, f[1][1], f[1][2], f[1][3], f[1][4],
                    f[2])
         IN Step(o, Call("suggest_time", get_current_user(cookie), event_id, 0))

VoteTime ==
  /\ ops < MaxOps
  /\ \E cookie \in Cookies, suggestion_id \in SuggestionIds, vote \in RawVotes :
       LET o == vote_time(db, cookie, suggestion_id, vote)
       IN Step(o, Call("vote_time", get_current_user(cookie), 0, suggestion_id))

AcceptTime ==
  /\ ops < MaxOps
  /\ \E cookie \in Cookies, suggestion_id \in SuggestionIds :
       LET o == accept_time(db, cookie, suggestion_id)
       IN Step(o, Call("accept_time", get_current_user(cookie), 0, suggestion_id))

Cleanup ==
  /\ ops < MaxOps
  /\ \E t \in NowValues :
       /\ cleanup_past_events(db, t) # db
       /\ db' = cleanup_past_events(db, t)
       /\ last' = Call("cleanup", NoUser, 0, 0)
       /\ ops' = ops + 1
       /\ pre' = db
       /\ UNCHANGED sess

Next ==
  \/ AddEvent
  \/ Invite
  \/ Respond
  \/ SuggestTime
  \/ VoteTime
  \/ AcceptTime
  \/ Cleanup

Spec == Init /\ [][Next]_vars

(***************************************************************************)
(* The calendar of GET /.  A date is the number of the day, day 0 being    *)
(* Monday 2024-01-01; a datetime is a number of slots as before; a year is *)
(* counted from 2024, a month from 1; the key of a day in the payload      *)
(* (its isoformat) is the day itself.                                      *)
(***************************************************************************)
MaxViews == 1

month_first == <<0, 31, 60>>
month_len == <<31, 29, 31>>

(* date(year, month, 1) and calendar.monthrange(year, month)[1] *)
date_first(year, month) == month_first[year * 12 + month]
monthrange_last(year, month) == month_len[year * 12 + month]

date_of(dt) == dt \div SlotsPerDay
datetime_of(d) == d * SlotsPerDay
weekday(d) == d % 7
month_of(d) == CHOOSE m \in 1..Len(month_first) :
                 month_first[m] <= d /\ d < month_first[m] + month_len[m]

max2(a, b) == IF a >= b THEN a ELSE b
min2(a, b) == IF a <= b THEN a ELSE b

month_in_range(y, m, min_y, min_m, max_y, max_m) ==
  LET x == y * 12 + (m - 1)
      mn == min_y * 12 + (min_m - 1)
      mx == max_y * 12 + (max_m - 1)
  IN mn <= x /\ x <= mx

clamp_month(y, m, min_y, min_m, max_y, max_m) ==
  IF month_in_range(y, m, min_y, min_m, max_y, max_m) THEN <<y, m>>
  ELSE IF y * 12 + (m - 1) < min_y * 12 + (min_m - 1) THEN <<min_y, min_m>>
  ELSE <<max_y, max_m>>

week_start(d) == d - weekday(d)

overlaps_day_closed(e, d) ==
  LET day_start == datetime_of(d)
      next_start == day_start + SlotsPerDay
  IN e.starts_at < next_start /\ e.ends_at >= day_start

overlaps_day(e, d) ==
  LET day_start == datetime_of(d)
      next_start == day_start + SlotsPerDay
  IN e.starts_at < next_start /\ e.ends_at > day_start

resp_index_get(responses, event_id, user_id) ==
  {r \in responses : r.event_id = event_id /\ r.user_id = user_id}

day_status_maybe_first(user, events_on_day, responses) ==
  IF events_on_day = << >> \/ user = NoUser THEN "empty"
  ELSE
    LET rs(i) == resp_index_get(responses, events_on_day[i].id, user)
        idx == 1..Len(events_on_day)
    IN IF \E i \in idx : \E r \in rs(i) : r.status = TxtMaybe THEN "maybe"
       ELSE IF \E i \in idx : \E r \in rs(i) : r.status = TxtNo THEN "no"
       ELSE IF \E i \in idx : rs(i) = {} THEN "pending"
       ELSE IF \E i \in idx : \E r \in rs(i) : r.status = TxtYes THEN "yes"
       ELSE "pending"

day_status_for_user(user, events_on_day, responses) ==
  IF events_on_day = << >> \/ user = NoUser THEN "empty"
  ELSE
    LET rs(i) == resp_index_get(responses, events_on_day[i].id, user)
        idx == 1..Len(events_on_day)
        saw_pending == \E i \in idx : rs(i) = {}
        saw_no == \E i \in idx : \E r \in rs(i) : r.status = TxtNo
        saw_maybe == \E i \in idx : \E r \in rs(i) : r.status = TxtMaybe
        saw_yes == \E i \in idx : \E r \in rs(i) : r.status = TxtYes
    IN IF saw_no THEN "no"
       ELSE IF saw_pending THEN "pending"
       ELSE IF saw_maybe THEN "maybe"
       ELSE IF saw_yes THEN "yes"
       ELSE "pending"

(* day_events.setdefault(key, []).append(e) *)
add_event_to_day(day_events, d, e) ==
  IF d \in DOMAIN day_events
  THEN [day_events EXCEPT ![d] = Append(@, e)]
  ELSE [x \in DOMAIN day_events \cup {d} |-> IF x = d THEN <<e>> ELSE day_events[x]]

(* for d in daterange_inclusive(cur, d2): if overlaps_day(e, d): add *)
RECURSIVE add_days(_, _, _, _)
add_days(day_events, e, cur, d2) ==
  IF cur > d2 THEN day_events
  ELSE add_days(IF overlaps_day(e, cur) THEN add_event_to_day(day_events, cur, e)
                ELSE day_events,
                e, cur + 1, d2)

(* for e in events, from the i-th on *)
RECURSIVE add_events(_, _, _, _, _)
add_events(day_events, events, i, lo, hi) ==
  IF i > Len(events) THEN day_events
  ELSE LET e == events[i]
           d1 == max2(date_of(e.starts_at), lo)
           d2 == min2(date_of(e.ends_at), hi)
       IN add_events(add_days(day_events, e, d1, d2), events, i + 1, lo, hi)

RECURSIVE add_events_day(_, _, _, _)
add_events_day(day_events, events, i, anchor_day) ==
  IF i > Len(events) THEN day_events
  ELSE add_events_day(IF overlaps_day(events[i], anchor_day)
                      THEN add_event_to_day(day_events, anchor_day, events[i])
                      ELSE day_events,
                      events, i + 1, anchor_day)

build_calendar_payload(user, events, responses, year, month, mode, anchor_day) ==
  LET day_events ==
        IF mode = "month"
        THEN LET month_start == date_first(year, month)
                 month_end == month_start + monthrange_last(year, month) - 1
             IN add_events(<< >>, events, 1, month_start, month_end)
        ELSE IF mode = "week"
        THEN LET ws == week_start(anchor_day)
                 we == ws + 6
             IN add_events(<< >>, events, 1, ws, we)
        ELSE add_events_day(<< >>, events, 1, anchor_day)
  IN [day_events |-> day_events,
      day_classes |->
        IF user = NoUser THEN << >>
        ELSE [d \in DOMAIN day_events |->
                day_status_for_user(user, day_events[d], responses)],
      day_counts |-> [d \in DOMAIN day_events |-> Len(day_events[d])]]

(* ---- the stored states and the requests of the calendar views ---- *)
CalDays == {30, 31, 34, 35, 59, 60}
CalInstants == {datetime_of(d) + t : d \in CalDays, t \in {0, 1}}
CalRanges == {r \in CalInstants \X CalInstants : r[1] < r[2]}
CalRanges2 ==
  {<<datetime_of(31) + 1, datetime_of(31) + 2>>,
   <<datetime_of(31), datetime_of(31) + 1>>,
   <<datetime_of(30) + 1, datetime_of(32)>>,
   <<datetime_of(34) + 1, datetime_of(35) + 1>>}
CalAnswers == {NoText, TxtYes, TxtMaybe, TxtNo}

(* User 1 created the events (and answers "yes", as add_event records),    *)
(* user 2 is invited to each and has answered ans[i], or not yet.          *)
CalDb(rng, ans) ==
  [events |-> {[id |-> i, starts_at |-> rng[i][1], ends_at |-> rng[i][2],
                created_by_user_id |-> 1] : i \in DOMAIN rng},
   invites |-> {[event_id |-> i, user_id |-> 2, invited_by_user_id |-> 1] :
                  i \in DOMAIN rng},
   responses |->
     {[event_id |-> i, user_id |-> 1, status |-> TxtYes, comment |-> NoText] :
        i \in DOMAIN rng}
     \cup {[event_id |-> i, user_id |-> 2, status |-> ans[i], comment |-> NoText] :
             i \in {j \in DOMAIN rng : ans[j] # NoText}},
   suggestions |-> {},
   votes |-> {}]

CalDbs ==
  {EmptyDb}
    \cup {CalDb(rng, ans) : rng \in [1..1 -> CalRanges], ans \in [1..1 -> CalAnswers]}
    \cup UNION {{CalDb(rng, ans) : rng \in [1..n -> CalRanges2], ans \in [1..n -> CalAnswers]} :
                  n \in 2..MaxEvents}

Modes == {"month", "week", "day"}
ViewNows == {0, datetime_of(32) + 1}
ViewCookies == {NoCookie, 1, 2}

(* mode, year, month and day of the query string *)
ViewQueries ==
  {<<"month", 0, m, 31>> : m \in 1..Len(month_first)}
    \cup {<<"week", 0, month_of(d), d>> : d \in {30, 35, 59}}
    \cup {<<"day", 0, month_of(d), d>> : d \in CalDays \cup {32}}

(* The lists a query ordered by starts_at may return. *)
Ordered(events) ==
  {seq \in [1..Cardinality(events) -> events] :
     /\ \A i, j \in DOMAIN seq : i # j => seq[i] # seq[j]
     /\ \A i, j \in DOMAIN seq : i < j => seq[i].starts_at <= seq[j].starts_at}

InitCal ==
  /\ db \in CalDbs
  /\ ops = 0
  /\ pre = EmptyDb
  /\ last = Call("init", NoUser, 0, 0)
  /\ sess = NoSessions

Home ==
  /\ ops < MaxViews
  /\ \E cookie \in ViewCookies, q \in ViewQueries, now \in ViewNows :
       LET user == get_current_user(cookie)
           today == date_of(now)
           today_year == 0
           ym == clamp_month(q[2], q[3], today_year, month_of(today), today_year + 2, 12)
           d == cleanup_past_events(db, now)
           responses == {r \in d.responses :
                           r.event_id \in {e.id : e \in visible_events_query(d, user)}}
       IN \E events \in Ordered(visible_events_query(d, user)) :
            /\ db' = d
            /\ pre' = db
            /\ ops' = ops + 1
            /\ UNCHANGED sess
            /\ last' = [op |-> "home", user |-> user, mode |-> q[1], year |-> ym[1],
                        month |-> ym[2], anchor |-> q[4], events |-> events,
                        page |-> build_calendar_payload(user, events, responses,
                                   ym[1], ym[2], q[1], q[4])]

NextCal == Home

SpecCal == InitCal /\ [][NextCal]_vars

(***************************************************************************)
(* POST /accept_time statement by statement.  The handler's session       *)
(* (SessionLocal, src/db.py:17) has autoflush off, so its SELECTs read the *)
(* committed rows, the assignments to e and to the suggestions stay in the *)
(* session until commit, and the flush at commit writes one UPDATE per     *)
(* loaded row with the columns whose value differs from the loaded one.    *)
(* The engine is the default SQLite file (src/db.py:15): the bulk DELETE   *)
(* opens the write transaction and holds the database's write lock until   *)
(* the commit; a second writer waits for the lock or gives up with         *)
(* "database is locked".  An object the session has already loaded keeps   *)
(* the attributes it was loaded with when a later query returns its row.   *)
(***************************************************************************)
Procs == {1, 2}

Instants == 0 .. ((MaxDay + 1) * SlotsPerDay - 1)

Ranges == {r \in Instants \X Instants : r[1] < r[2]}

(* An event of user 1 with user 2 invited, and two suggestions of user 2   *)
(* for it; acc is the suggestion already accepted, or 0 when none is.      *)
RaceDb(r0, r1, r2, acc) ==
  [events |-> {[id |-> 1, starts_at |-> r0[1], ends_at |-> r0[2],
                created_by_user_id |-> 1]},
   invites |-> {[event_id |-> 1, user_id |-> 2, invited_by_user_id |-> 1]},
   responses |->
     {[event_id |-> 1, user_id |-> 1, status |-> TxtYes, comment |-> NoText]}
     \cup (IF acc = 0
           THEN {[event_id |-> 1, user_id |-> 2, status |-> TxtNo, comment |-> NoText]}
           ELSE {}),
   suggestions |->
     {[id |-> 1, event_id |-> 1, proposed_by_user_id |-> 2,
       proposed_starts_at |-> r1[1], proposed_ends_at |-> r1[2], accepted |-> (acc = 1)],
      [id |-> 2, event_id |-> 1, proposed_by_user_id |-> 2,
       proposed_starts_at |-> r2[1], proposed_ends_at |-> r2[2], accepted |-> (acc = 2)]},
   votes |-> {}]

(* uq_event_suggested_time: the two suggestions start at different times. *)
RangePairs == {q \in Ranges \X Ranges : q[1][1] # q[2][1]}

RaceDbs ==
  {RaceDb(r0, q[1], q[2], 0) : r0 \in Ranges, q \in RangePairs}
  \cup {RaceDb(q[1], q[1], q[2], 1) : q \in RangePairs}

Session(cookie, suggestion_id) ==
  [pc |-> "start", user |-> get_current_user(cookie), suggestion_id |-> suggestion_id,
   s |-> {}, e |-> {}, all_s |-> {}, result |-> "NONE"]

Finish(p, code) == sess' = [sess EXCEPT ![p].pc = "done", ![p].result = code]

WriteLockHeld == \E q \in DOMAIN sess : sess[q].pc = "commit"

(* The UPDATE of the event row: the columns the session changed. *)
flush_event(row, loaded, assigned) ==
  [row EXCEPT
     !.starts_at = IF assigned.starts_at # loaded.starts_at THEN assigned.starts_at ELSE @,
     !.ends_at = IF assigned.ends_at # loaded.ends_at THEN assigned.ends_at ELSE @]

(* The UPDATEs of the suggestion rows: those whose flag the session changed. *)
flush_flags(suggestions, all_s, s) ==
  {IF \E x \in all_s : x.id = row.id /\ x.accepted # (x.id = s.id)
   THEN [row EXCEPT !.accepted = (row.id = s.id)]
   ELSE row : row \in suggestions}

InitRace ==
  /\ db \in RaceDbs
  /\ ops = 0
  /\ pre = EmptyDb
  /\ last = Call("init", NoUser, 0, 0)
  /\ sess = [p \in Procs |-> Session(1, p)]

QuerySuggestion(p) ==
  /\ sess[p].pc = "start"
  /\ UNCHANGED <<db, last, pre, ops>>
  /\ LET ss == SuggestionById(db, sess[p].suggestion_id) IN
     IF sess[p].user = NoUser THEN Finish(p, "LOGIN_REQUIRED")
     ELSE IF ss = {} THEN Finish(p, "NO_SUGGESTION")
     ELSE sess' = [sess EXCEPT ![p].pc = "event", ![p].s = ss]

QueryEvent(p) ==
  /\ sess[p].pc = "event"
  /\ UNCHANGED <<db, last, pre, ops>>
  /\ LET s == CHOOSE x \in sess[p].s : TRUE
         es == EventById(db, s.event_id)
     IN
     IF es = {} THEN Finish(p, "NO_EVENT")
     ELSE IF (CHOOSE x \in es : TRUE).created_by_user_id # sess[p].user
     THEN Finish(p, "NOT_CREATOR")
     ELSE sess' = [sess EXCEPT ![p].pc = "flags", ![p].e = es]

QuerySuggestions(p) ==
  /\ sess[p].pc = "flags"
  /\ UNCHANGED <<db, last, pre, ops>>
  /\ LET s == CHOOSE x \in sess[p].s : TRUE
         e == CHOOSE x \in sess[p].e : TRUE
     IN sess' = [sess EXCEPT
                   ![p].pc = "delete",
                   ![p].all_s = {IF x.id = s.id THEN s ELSE x :
                                   x \in {y \in db.suggestions : y.event_id = e.id}}]

DeleteResponses(p) ==
  /\ sess[p].pc = "delete"
  /\ ~WriteLockHeld
  /\ UNCHANGED <<db, last, pre, ops>>
  /\ sess' = [sess EXCEPT ![p].pc = "commit"]

Locked(p) ==
  /\ sess[p].pc = "delete"
  /\ WriteLockHeld
  /\ UNCHANGED <<db, last, pre, ops>>
  /\ Finish(p, "LOCKED")

Commit(p) ==
  /\ sess[p].pc = "commit"
  /\ LET s == CHOOSE x \in sess[p].s : TRUE
         e == CHOOSE x \in sess[p].e : TRUE
         rr == reset_responses(db.responses, e, sess[p].user)
         o == commit(db,
                [db EXCEPT
                   !.events = {IF row.id = e.id THEN flush_event(row, e, rescheduled(e, s))
                               ELSE row : row \in @},
                   !.suggestions = flush_flags(@, sess[p].all_s, s),
                   !.responses = rr.kept],
                [NoRows EXCEPT !.responses = rr.added])
     IN /\ db' = o.db
        /\ pre' = db
        /\ last' = Call("accept_time", sess[p].user, e.id, s.id)
        /\ ops' = ops + 1
        /\ Finish(p, o.result)

NextRace ==
  \E p \in Procs :
    \/ QuerySuggestion(p)
    \/ QueryEvent(p)
    \/ QuerySuggestions(p)
    \/ DeleteResponses(p)
    \/ Locked(p)
    \/ Commit(p)

SpecRace == InitRace /\ [][NextRace]_vars

(***************************************************************************)
(* Properties.  A property of a handler is stated over every request the   *)
(* model can send in a reachable state: the handler is applied to the      *)
(* stored state and the request, and its outcome is examined.              *)
(***************************************************************************)
CanSee(d, event_id, u) ==
  \E e \in d.events :
    /\ e.id = event_id
    /\ \/ e.created_by_user_id = u
       \/ \E i \in d.invites : i.event_id = event_id /\ i.user_id = u

ResponsesOf(d, event_id) == {r \in d.responses : r.event_id = event_id}

RowsOf(d, event_id, u) == {r \in d.responses : r.event_id = event_id /\ r.user_id = u}

CreatorYes(event_id, u) ==
  [event_id |-> event_id, user_id |-> u, status |-> TxtYes, comment |-> NoText]

AcceptedOf(d, event_id) == {s \in d.suggestions : s.event_id = event_id /\ s.accepted}

(* The raw statuses and votes the model sends, trimmed and lower-cased. *)
Normalized == [raw \in RawStatuses \cup RawVotes \cup {TxtYes} |-> StripLower(raw)]

ValidStatus(raw) == Normalized[raw] \in {TxtYes, TxtMaybe, TxtNo}

ValidVote(raw) == Normalized[raw] \in {TxtUp, TxtDown}

ValidRange(f) ==
  /\ \A i \in 1..4 : f[i] # BadField
  /\ f[3] * SlotsPerDay + f[4] > f[1] * SlotsPerDay + f[2]

(* C1: after accept_time succeeds for a suggestion of event e, the caller   *)
(* is e's creator and the responses stored for e are exactly one: the       *)
(* creator's, "yes", without comment; the responses e had before are gone.  *)
C1_AcceptResetsResponses ==
  \A cookie \in Cookies, s \in db.suggestions :
    LET o == accept_time(db, cookie, s.id) IN
    o.result = "OK" =>
      \A e \in EventById(db, s.event_id) :
        /\ get_current_user(cookie) = e.created_by_user_id
        /\ ResponsesOf(o.db, e.id) = {CreatorYes(e.id, e.created_by_user_id)}

(* C1 witness: accept_time was served for an event that had a response of   *)
(* a user other than the creator, and now has the creator's "yes" only.     *)
C1_Witness ==
  /\ last.op = "accept_time"
  /\ \E s \in SuggestionById(pre, last.suggestion_id) :
       /\ \E x \in ResponsesOf(pre, s.event_id) : x.user_id # last.user
       /\ \E x \in ResponsesOf(pre, s.event_id) : x.user_id = last.user
       /\ ResponsesOf(db, s.event_id) = {CreatorYes(s.event_id, last.user)}

(* C2: every event has at most one accepted suggestion, and accept_time     *)
(* leaves the suggestion it accepts as the only accepted one of its event.  *)
C2_AtMostOneAccepted ==
  /\ \A e \in db.events : Cardinality(AcceptedOf(db, e.id)) <= 1
  /\ \A cookie \in Cookies, s \in db.suggestions :
       LET o == accept_time(db, cookie, s.id) IN
       o.result = "OK" => {x.id : x \in AcceptedOf(o.db, s.event_id)} = {s.id}

(* C2 witness: one suggestion of an event is accepted, and accepting        *)
(* another suggestion of the same event un-accepts it.                      *)
C2_Witness ==
  /\ last.op = "accept_time"
  /\ \E cookie \in Cookies, s \in db.suggestions, t \in db.suggestions :
       LET o == accept_time(db, cookie, s.id) IN
       /\ t.id = last.suggestion_id
       /\ s.id # t.id
       /\ s.event_id = t.event_id
       /\ t.accepted
       /\ o.result = "OK"
       /\ \E x \in SuggestionById(o.db, t.id) : ~x.accepted

(* C3: visible_events_query(u) returns exactly the events u created or is   *)
(* invited to, is_event_visible_to_user agrees with it, and the query       *)
(* returns nothing when no user is logged in.                               *)
C3_Visibility ==
  /\ \A u \in Users : \A e \in db.events :
       /\ (e \in visible_events_query(db, u)) <=> CanSee(db, e.id, u)
       /\ is_event_visible_to_user(db, e.id, u) <=> CanSee(db, e.id, u)
  /\ \A u \in Users : visible_events_query(db, u) \subseteq db.events
  /\ visible_events_query(db, NoUser) = {}

(* C3 witness: one user sees an event as its creator and another as an      *)
(* invitee, and some user does not see some event.                          *)
C3_Witness ==
  /\ \E e \in db.events, u \in Users :
       /\ u # e.created_by_user_id
       /\ e \in visible_events_query(db, u)
       /\ e \in visible_events_query(db, e.created_by_user_id)
  /\ \E e \in db.events, u \in Users : e \notin visible_events_query(db, u)

UniqueResponses(d) ==
  \A r1 \in d.responses : \A r2 \in d.responses :
    (r1.event_id = r2.event_id /\ r1.user_id = r2.user_id) => r1 = r2

(* C4: there is at most one response per (event, user); after respond or   *)
(* suggest_time is served the caller has exactly one response to the        *)
(* event, and when the caller had one before, no response was added; after  *)
(* accept_time is served the creator has exactly one.                       *)
C4_OneResponsePerUser ==
  /\ UniqueResponses(db)
  /\ last.op \in {"respond", "suggest_time"} =>
       /\ Cardinality(RowsOf(db, last.event_id, last.user)) = 1
       /\ RowsOf(pre, last.event_id, last.user) # {} =>
            Cardinality(db.responses) = Cardinality(pre.responses)
       /\ \A x \in pre.responses :
            (x.event_id # last.event_id \/ x.user_id # last.user) => x \in db.responses
  /\ last.op = "accept_time" =>
       \A s \in SuggestionById(pre, last.suggestion_id) :
         Cardinality(RowsOf(db, s.event_id, last.user)) = 1

(* C4 witness: respond was served for a user who already had a response to  *)
(* the event, and the user still has one response, with the new status.     *)
C4_Witness ==
  /\ last.op = "respond"
  /\ \E x \in RowsOf(pre, last.event_id, last.user) :
       \E y \in RowsOf(db, last.event_id, last.user) : y.status # x.status
  /\ Cardinality(RowsOf(db, last.event_id, last.user)) = 1
  /\ Cardinality(db.responses) = Cardinality(pre.responses)
  /\ Cardinality(db.responses) = 2

UniqueVotes(d) ==
  \A v1 \in d.votes : \A v2 \in d.votes :
    (v1.suggestion_id = v2.suggestion_id /\ v1.user_id = v2.user_id) => v1 = v2

(* C5: there is at most one vote per (suggestion, user), every stored vote  *)
(* is "up" or "down", and a vote_time call whose vote, trimmed and          *)
(* lower-cased, is neither leaves the stored state unchanged.               *)
C5_Votes ==
  /\ UniqueVotes(db)
  /\ \A v \in db.votes : v.vote \in {TxtUp, TxtDown}
  /\ \A vote \in RawVotes :
       ~ValidVote(vote) =>
         \A cookie \in Cookies, suggestion_id \in SuggestionIds :
           vote_time(db, cookie, suggestion_id, vote).db = db

(* C5 witness: vote_time changed a stored vote to the other value, and a    *)
(* request with a vote that is neither "up" nor "down" is rejected for a    *)
(* user who sees the suggestion's event.                                    *)
C5_Witness ==
  /\ last.op = "vote_time"
  /\ \E v \in db.votes, w \in pre.votes :
       /\ v.suggestion_id = w.suggestion_id
       /\ v.user_id = w.user_id
       /\ v.vote # w.vote
  /\ \E cookie \in LoggedIn, s \in db.suggestions, vote \in RawVotes :
       /\ CanSee(db, s.event_id, get_current_user(cookie))
       /\ vote_time(db, cookie, s.id, vote).result = "BAD_VOTE"

(* C6: after accept_time succeeds for suggestion s of event e, e starts and *)
(* ends when s proposes, and every other event is as it was.                *)
C6_AcceptReschedules ==
  \A cookie \in Cookies, s \in db.suggestions :
    LET o == accept_time(db, cookie, s.id) IN
    o.result = "OK" =>
      /\ {e.id : e \in o.db.events} = {e.id : e \in db.events}
      /\ \E e \in o.db.events : e.id = s.event_id
      /\ \A e \in o.db.events :
           IF e.id = s.event_id
           THEN e.starts_at = s.proposed_starts_at /\ e.ends_at = s.proposed_ends_at
           ELSE e \in db.events

(* C6 witness: accept_time was served while two events were stored, and     *)
(* moved the end of the suggestion's event.                                 *)
C6_Witness ==
  /\ last.op = "accept_time"
  /\ Cardinality(db.events) = 2
  /\ \E s \in SuggestionById(db, last.suggestion_id) :
       \E e \in db.events, e0 \in pre.events :
         /\ e.id = s.event_id
         /\ e0.id = s.event_id
         /\ e.ends_at # e0.ends_at
         /\ e.starts_at = s.proposed_starts_at
         /\ e.ends_at = s.proposed_ends_at

(* C7: for a logged-in caller, invite ends in NO_EVENT when the event does  *)
(* not exist and in NOT_CREATOR when the caller did not create it;          *)
(* accept_time ends in NO_SUGGESTION when the suggestion does not exist, in *)
(* NO_EVENT when its event does not, and in NOT_CREATOR when the caller did *)
(* not create the event; the stored state is unchanged in each case.        *)
C7_CreatorOnly ==
  /\ \A cookie \in LoggedIn, event_id \in EventIds :
       LET u == get_current_user(cookie)
           es == EventById(db, event_id)
       IN /\ es = {} =>
               \A ids \in InviteFields(cookie) :
                 invite_to_event(db, cookie, event_id, ids) = Fail("NO_EVENT", db)
          /\ (\E e \in es : e.created_by_user_id # u) =>
               \A ids \in InviteFields(cookie) :
                 invite_to_event(db, cookie, event_id, ids) = Fail("NOT_CREATOR", db)
  /\ \A cookie \in LoggedIn, suggestion_id \in SuggestionIds :
       LET u == get_current_user(cookie)
           ss == SuggestionById(db, suggestion_id)
       IN /\ ss = {} => accept_time(db, cookie, suggestion_id) = Fail("NO_SUGGESTION", db)
          /\ \A s \in ss :
               /\ EventById(db, s.event_id) = {} =>
                    accept_time(db, cookie, suggestion_id) = Fail("NO_EVENT", db)
               /\ (\E e \in EventById(db, s.event_id) : e.created_by_user_id # u) =>
                    accept_time(db, cookie, suggestion_id) = Fail("NOT_CREATOR", db)

(* C7 witness: an invited user who did not create the event asks to invite  *)
(* users and to accept a suggestion, and both requests end in NOT_CREATOR;  *)
(* requests for an event and a suggestion that do not exist end in NO_EVENT *)
(* and NO_SUGGESTION.                                                       *)
C7_Witness ==
  /\ \E cookie \in LoggedIn, s \in db.suggestions :
       /\ CanSee(db, s.event_id, get_current_user(cookie))
       /\ accept_time(db, cookie, s.id).result = "NOT_CREATOR"
       /\ invite_to_event(db, cookie, s.event_id, AllIds).result = "NOT_CREATOR"
  /\ \E cookie \in LoggedIn, suggestion_id \in SuggestionIds :
       accept_time(db, cookie, suggestion_id).result = "NO_SUGGESTION"
  /\ \E cookie \in LoggedIn, event_id \in EventIds :
       invite_to_event(db, cookie, event_id, AllIds).result = "NO_EVENT"

Outsider(d, event_id, u) == EventById(d, event_id) # {} /\ ~CanSee(d, event_id, u)

(* C8 as claimed: whenever the logged-in caller is neither the creator of   *)
(* nor invited to the target event, respond, suggest_time and vote_time end *)
(* in FORBIDDEN and leave responses, suggestions and votes as they were.    *)
C8_OutsiderAlwaysForbidden ==
  /\ \A cookie \in LoggedIn, e \in db.events :
       Outsider(db, e.id, get_current_user(cookie)) =>
         /\ \A f \in RespondFields(cookie) :
              respond(db, cookie, e.id, f[1], f[2]) = Fail("FORBIDDEN", db)
         /\ \A f \in SuggestFields(cookie) :
              suggest_time(db, cookie, e.id, f[1][1], f[1][2], f[1][3], f[1][4], f[2])
                = Fail("FORBIDDEN", db)
  /\ \A cookie \in LoggedIn, s \in db.suggestions :
       Outsider(db, s.event_id, get_current_user(cookie)) =>
         \A vote \in RawVotes : vote_time(db, cookie, s.id, vote) = Fail("FORBIDDEN", db)

(* C8 as amended: such a call never changes the stored state; it ends in    *)
(* FORBIDDEN when its fields pass the checks the handler makes first        *)
(* (status, vote, comment length, date range) and in the error code of the  *)
(* first of those checks that fails otherwise.  A target event that does    *)
(* not exist is treated like one the caller cannot see.                     *)
C8_OutsiderChangesNothing ==
  /\ \A cookie \in LoggedIn, event_id \in EventIds :
       ~CanSee(db, event_id, get_current_user(cookie)) =>
         /\ \A f \in RespondFields(cookie) :
              respond(db, cookie, event_id, f[1], f[2]) =
                Fail(IF ~ValidStatus(f[1]) THEN "BAD_STATUS"
                     ELSE IF f[2] = LongText THEN "COMMENT_TOO_LONG"
                     ELSE "FORBIDDEN", db)
         /\ \A f \in SuggestFields(cookie) :
              suggest_time(db, cookie, event_id, f[1][1], f[1][2], f[1][3], f[1][4], f[2]) =
                Fail(IF ~ValidRange(f[1]) THEN "BAD_RANGE"
                     ELSE IF f[2] = LongText THEN "COMMENT_TOO_LONG"
                     ELSE "FORBIDDEN", db)
  /\ \A cookie \in LoggedIn, s \in db.suggestions :
       ~CanSee(db, s.event_id, get_current_user(cookie)) =>
         \A vote \in RawVotes :
           vote_time(db, cookie, s.id, vote) =
             Fail(IF ~ValidVote(vote) THEN "BAD_VOTE" ELSE "FORBIDDEN", db)

(* C8 witness: an event with a suggestion is stored that some logged-in     *)
(* user cannot see, and that user's respond, suggest_time and vote_time     *)
(* requests with valid fields end in FORBIDDEN.                             *)
C8_Witness ==
  \E s \in db.suggestions, cookie \in LoggedIn :
    /\ Outsider(db, s.event_id, get_current_user(cookie))
    /\ respond(db, cookie, s.event_id, TxtNo, BlankText).result = "FORBIDDEN"
    /\ suggest_time(db, cookie, s.event_id, 0, 1, 0, 2, OkText).result = "FORBIDDEN"
    /\ vote_time(db, cookie, s.id, TxtDown).result = "FORBIDDEN"

SameRange(d, event_id, p_start, p_end) ==
  {s \in d.suggestions :
     /\ s.event_id = event_id
     /\ s.proposed_starts_at = p_start
     /\ s.proposed_ends_at = p_end}

(* C9 as claimed: no two suggestions of an event have the same (start, end) *)
(* range; suggest_time with a range the event has adds no suggestion; and   *)
(* suggest_time with a valid range the event does not have, sent by a user  *)
(* who sees the event, adds exactly one suggestion, not accepted, proposed  *)
(* by the caller.                                                           *)
C9_UniqueRangeAndAdd ==
  /\ \A s1 \in db.suggestions : \A s2 \in db.suggestions :
       (/\ s1.event_id = s2.event_id
        /\ s1.proposed_starts_at = s2.proposed_starts_at
        /\ s1.proposed_ends_at = s2.proposed_ends_at) => s1 = s2
  /\ \A cookie \in LoggedIn, e \in db.events :
       CanSee(db, e.id, get_current_user(cookie)) =>
         \A f \in {g \in RangeForms : ValidRange(g)} :
           LET p_start == parse_dt(f[1], f[2])
               p_end == parse_dt(f[3], f[4])
               o == suggest_time(db, cookie, e.id, f[1], f[2], f[3], f[4], OkText)
               added == o.db.suggestions \ db.suggestions
           IN /\ db.suggestions \subseteq o.db.suggestions
              /\ IF SameRange(db, e.id, p_start, p_end) # {}
                 THEN added = {}
                 ELSE /\ Cardinality(added) = 1
                      /\ \A s \in added :
                           /\ s.event_id = e.id
                           /\ s.proposed_starts_at = p_start
                           /\ s.proposed_ends_at = p_end
                           /\ s.accepted = FALSE
                           /\ s.proposed_by_user_id = get_current_user(cookie)

(* C10 as claimed: every stored response has status "yes", "maybe" or       *)
(* "no", and a respond call whose status, trimmed and lower-cased, is none  *)
(* of these ends in BAD_STATUS and leaves the stored state unchanged,       *)
(* whoever sends it.                                                        *)
C10_StatusesAnyCaller ==
  /\ \A x \in db.responses : x.status \in {TxtYes, TxtMaybe, TxtNo}
  /\ \A cookie \in Cookies, event_id \in EventIds :
       respond(db, cookie, event_id, TxtSoon, BlankText) = Fail("BAD_STATUS", db)

(* C10 as amended: every stored response has status "yes", "maybe" or "no"; *)
(* a respond call whose status, trimmed and lower-cased, is none of these   *)
(* leaves the stored state unchanged, and ends in BAD_STATUS when its       *)
(* caller is logged in and in LOGIN_REQUIRED when not.                      *)
C10_Statuses ==
  /\ \A x \in db.responses : x.status \in {TxtYes, TxtMaybe, TxtNo}
  /\ \A cookie \in LoggedIn, event_id \in EventIds :
       \A f \in RespondFields(cookie) :
         ~ValidStatus(f[1]) =>
           respond(db, cookie, event_id, f[1], f[2]) = Fail("BAD_STATUS", db)
  /\ \A cookie \in LoggedOut, event_id \in EventIds :
       respond(db, cookie, event_id, TxtSoon, BlankText) = Fail("LOGIN_REQUIRED", db)

(* C10 witness: the last request stored the response "maybe", and a         *)
(* request with a status that is none of the three ends in BAD_STATUS for a *)
(* user who sees an event and in LOGIN_REQUIRED without a session.          *)
C10_Witness ==
  /\ last.op = "respond"
  /\ \E x \in RowsOf(db, last.event_id, last.user) : x.status = TxtMaybe
  /\ \E cookie \in LoggedIn, e \in db.events :
       /\ CanSee(db, e.id, get_current_user(cookie))
       /\ respond(db, cookie, e.id, TxtSoon, BlankText).result = "BAD_STATUS"
       /\ respond(db, NoCookie, e.id, TxtSoon, BlankText).result = "LOGIN_REQUIRED"

(* C11: after suggest_time is served for user u and event e, u has exactly  *)
(* one response to e and its status is "no"; a response u had before keeps  *)
(* its comment, a new one has none; the responses of all other users, and   *)
(* u's responses to other events, are as before; and this is so also when   *)
(* the range was already suggested and no suggestion is added.              *)
C11_SuggestSetsNo ==
  last.op = "suggest_time" =>
    LET was == RowsOf(pre, last.event_id, last.user)
        now == RowsOf(db, last.event_id, last.user)
    IN /\ Cardinality(now) = 1
       /\ \A r \in now :
            /\ r.status = TxtNo
            /\ IF was = {} THEN r.comment = NoText
               ELSE \A x \in was : r.comment = x.comment
       /\ db.responses \ now = pre.responses \ was

(* C11 witness: suggest_time was served for a range the event already had,  *)
(* added no suggestion, and turned the caller's "maybe" with a comment into *)
(* "no" with the same comment.                                              *)
C11_Witness ==
  /\ last.op = "suggest_time"
  /\ db.suggestions = pre.suggestions
  /\ \E x \in RowsOf(pre, last.event_id, last.user) :
       /\ x.status = TxtMaybe
       /\ x.comment # NoText
       /\ [x EXCEPT !.status = TxtNo] \in db.responses

VotesOf(d, suggestion_id, u) ==
  {x \in d.votes : x.suggestion_id = suggestion_id /\ x.user_id = u}

VoteRow(suggestion_id, u, v) == [suggestion_id |-> suggestion_id, user_id |-> u, vote |-> v]

(* C12 as claimed: a served vote_time stores the vote when the user had     *)
(* none on the suggestion, deletes the user's vote when it had the same     *)
(* value, replaces it when it had the other value, and changes no other     *)
(* vote; and casting the same vote twice in a row leaves the user's vote on *)
(* the suggestion as it was before the first call.                          *)
C12_TwiceRestores ==
  \A cookie \in LoggedIn, s \in db.suggestions, vote \in RawVotes :
    LET u == get_current_user(cookie)
        v == Normalized[vote]
        was == VotesOf(db, s.id, u)
        o1 == vote_time(db, cookie, s.id, vote)
        o2 == vote_time(o1.db, cookie, s.id, vote)
    IN o1.result = "OK" =>
         /\ VotesOf(o1.db, s.id, u) =
              IF was = {VoteRow(s.id, u, v)} THEN {} ELSE {VoteRow(s.id, u, v)}
         /\ o1.db.votes \ VotesOf(o1.db, s.id, u) = db.votes \ was
         /\ o2.result = "OK"
         /\ VotesOf(o2.db, s.id, u) = was

(* C12 as amended: the three cases of the toggle as claimed, no other vote  *)
(* changed; casting the same vote twice in a row leaves the user's vote on  *)
(* the suggestion as it was before the first call when the user had no vote *)
(* or a vote of the same value, and leaves the user without a vote when the *)
(* user had a vote of the other value (replaced, then deleted).             *)
C12_Toggle ==
  \A cookie \in LoggedIn, s \in db.suggestions, vote \in RawVotes :
    LET u == get_current_user(cookie)
        v == Normalized[vote]
        was == VotesOf(db, s.id, u)
        o1 == vote_time(db, cookie, s.id, vote)
        o2 == vote_time(o1.db, cookie, s.id, vote)
    IN o1.result = "OK" =>
         /\ Cardinality(was) <= 1
         /\ VotesOf(o1.db, s.id, u) =
              IF was = {VoteRow(s.id, u, v)} THEN {} ELSE {VoteRow(s.id, u, v)}
         /\ o1.db.votes \ VotesOf(o1.db, s.id, u) = db.votes \ was
         /\ [o1.db EXCEPT !.votes = db.votes] = db
         /\ o2.result = "OK"
         /\ VotesOf(o2.db, s.id, u) =
              IF was \subseteq {VoteRow(s.id, u, v)} THEN was ELSE {}
         /\ o2.db.votes \ VotesOf(o2.db, s.id, u) = db.votes \ was

(* C12 witness: a user holds a "down" vote on a suggestion on which another *)
(* user has voted too; voting "up" replaces it, and voting "up" again       *)
(* deletes it, while voting "down" twice deletes and restores it.           *)
C12_Witness ==
  \E cookie \in LoggedIn, s \in db.suggestions :
    LET u == get_current_user(cookie)
        up1 == vote_time(db, cookie, s.id, TxtUp)
        up2 == vote_time(up1.db, cookie, s.id, TxtUp)
        down1 == vote_time(db, cookie, s.id, TxtDown)
        down2 == vote_time(down1.db, cookie, s.id, TxtDown)
    IN /\ VotesOf(db, s.id, u) = {VoteRow(s.id, u, TxtDown)}
       /\ \E x \in db.votes : x.suggestion_id = s.id /\ x.user_id # u
       /\ VotesOf(up1.db, s.id, u) = {VoteRow(s.id, u, TxtUp)}
       /\ VotesOf(up2.db, s.id, u) = {}
       /\ VotesOf(down1.db, s.id, u) = {}
       /\ VotesOf(down2.db, s.id, u) = {VoteRow(s.id, u, TxtDown)}

EventIdsOf(d) == {e.id : e \in d.events}

NoDangling(d) ==
  /\ \A i \in d.invites : i.event_id \in EventIdsOf(d)
  /\ \A r \in d.responses : r.event_id \in EventIdsOf(d)
  /\ \A s \in d.suggestions : s.event_id \in EventIdsOf(d)
  /\ \A v \in d.votes : \E s \in d.suggestions : s.id = v.suggestion_id

(* C13: cleanup_past_events at time t removes exactly the events that end   *)
(* before t, with their invites, responses and suggestions and the votes on *)
(* those suggestions, and leaves every other row as it was; and in every    *)
(* state every invite, response and suggestion refers to a stored event and *)
(* every vote to a stored suggestion.                                       *)
C13_CleanupCascade ==
  /\ NoDangling(db)
  /\ \A t \in NowValues :
       LET o == cleanup_past_events(db, t)
           gone == {e.id : e \in {x \in db.events : x.ends_at < t}}
           goneS == {s.id : s \in {x \in db.suggestions : x.event_id \in gone}}
       IN /\ o.events = {e \in db.events : ~(e.ends_at < t)}
          /\ o.invites = {i \in db.invites : i.event_id \notin gone}
          /\ o.responses = {r \in db.responses : r.event_id \notin gone}
          /\ o.suggestions = {s \in db.suggestions : s.event_id \notin gone}
          /\ o.votes = {v \in db.votes : v.suggestion_id \notin goneS}
          /\ NoDangling(o)

(* C13 witness: at some time cleanup removes an event that has an invite,  *)
(* a response, a suggestion and a vote, with all of them, and keeps another *)
(* event with its response.                                                 *)
C13_Witness ==
  \E t \in NowValues, e \in db.events, k \in db.events :
    LET o == cleanup_past_events(db, t) IN
    /\ e \notin o.events
    /\ k \in o.events
    /\ \E r \in o.responses : r.event_id = k.id
    /\ \E i \in db.invites \ o.invites : i.event_id = e.id
    /\ \E r \in db.responses \ o.responses : r.event_id = e.id
    /\ \E s \in db.suggestions \ o.suggestions :
         /\ s.event_id = e.id
         /\ \E v \in db.votes \ o.votes : v.suggestion_id = s.id

(* The lists that enumerate a set of events, in every order. *)
ListsOf(S) ==
  {seq \in [1..Cardinality(S) -> S] : \A i, j \in DOMAIN seq : i # j => seq[i] # seq[j]}

AnswersOf(d, S, u) == {r \in d.responses : r.user_id = u /\ r.event_id \in {e.id : e \in S}}

Unanswered(d, S, u) == {e \in S : ~\E r \in d.responses : r.user_id = u /\ r.event_id = e.id}

(* C14: for every list of stored events, in every order, and every user,   *)
(* day_status_for_user is "empty" when there is no user or no event, else   *)
(* "no" when the user answered "no" to one of the events, else "pending"    *)
(* when one of them has no answer of the user, else "maybe" when one answer *)
(* is "maybe", else "yes"; and the class the calendar of GET / gives a day  *)
(* is that status of the events listed under the day.                       *)
C14_DayStatus ==
  /\ \A u \in Users \cup {NoUser} : \A S \in SUBSET db.events :
       \A es \in ListsOf(S) :
         day_status_for_user(u, es, db.responses) =
           IF u = NoUser \/ S = {} THEN "empty"
           ELSE IF \E r \in AnswersOf(db, S, u) : r.status = TxtNo THEN "no"
           ELSE IF Unanswered(db, S, u) # {} THEN "pending"
           ELSE IF \E r \in AnswersOf(db, S, u) : r.status = TxtMaybe THEN "maybe"
           ELSE "yes"
  /\ (last.op = "home" /\ last.user # NoUser) =>
       \A d \in DOMAIN last.page.day_events :
         LET S == {last.page.day_events[d][i] : i \in DOMAIN last.page.day_events[d]}
         IN last.page.day_classes[d] =
              IF \E r \in AnswersOf(db, S, last.user) : r.status = TxtNo THEN "no"
              ELSE IF Unanswered(db, S, last.user) # {} THEN "pending"
              ELSE IF \E r \in AnswersOf(db, S, last.user) : r.status = TxtMaybe THEN "maybe"
              ELSE "yes"

(* C14 witness: the calendar lists two events under one day; the user has   *)
(* answered "maybe" to one and nothing to the other, and the day's class is *)
(* "pending"; had the user no session the status would be "empty".          *)
C14_Witness ==
  /\ last.op = "home"
  /\ \E d \in DOMAIN last.page.day_events :
       LET es == last.page.day_events[d] IN
       /\ Len(es) = 2
       /\ \E i, j \in 1..2 :
            /\ \E r \in db.responses :
                 r.user_id = last.user /\ r.event_id = es[i].id /\ r.status = TxtMaybe
            /\ ~\E r \in db.responses : r.user_id = last.user /\ r.event_id = es[j].id
       /\ last.page.day_classes[d] = "pending"
       /\ day_status_for_user(NoUser, es, db.responses) = "empty"

AllDays == 0..(month_first[Len(month_first)] + month_len[Len(month_len)] - 1)

(* The days a view displays. *)
Window(mode, year, month, anchor) ==
  IF mode = "month"
  THEN {d \in AllDays : month_of(d) = year * 12 + month}
  ELSE IF mode = "week"
  THEN {d \in AllDays :
          \E monday \in {x \in AllDays : x % 7 = 0} :
            /\ monday <= anchor /\ anchor <= monday + 6
            /\ monday <= d /\ d <= monday + 6}
  ELSE {anchor}

TimesListed(page, d, e) ==
  IF d \in DOMAIN page.day_events
  THEN Cardinality({i \in DOMAIN page.day_events[d] : page.day_events[d][i] = e})
  ELSE 0

(* C15: the calendar of GET / lists event e under day d exactly when d is   *)
(* in the displayed window (the month, the Monday-to-Sunday week of the     *)
(* anchor day, or the anchor day) and e starts before the midnight that     *)
(* ends d and ends after the midnight that starts d; it lists e once under  *)
(* such a day, lists only events it was given, and day_counts[d] is the     *)
(* number of events listed under d.                                         *)
C15_Bucketing ==
  last.op = "home" =>
    LET page == last.page
        given == {last.events[i] : i \in DOMAIN last.events}
        window == Window(last.mode, last.year, last.month, last.anchor)
    IN /\ \A d \in AllDays : \A e \in given :
            TimesListed(page, d, e) =
              IF /\ d \in window
                 /\ e.starts_at < (d + 1) * SlotsPerDay
                 /\ e.ends_at > d * SlotsPerDay
              THEN 1 ELSE 0
       /\ DOMAIN page.day_events \subseteq AllDays
       /\ DOMAIN page.day_counts = DOMAIN page.day_events
       /\ \A d \in DOMAIN page.day_events :
            /\ \A i \in DOMAIN page.day_events[d] : page.day_events[d][i] \in given
            /\ page.day_counts[d] = Cardinality({e \in given : TimesListed(page, d, e) = 1})
            /\ page.day_counts[d] >= 1

(* C15 witness: the week view lists an event under two consecutive days and *)
(* not under the next day of the week, at whose midnight the event ends;    *)
(* and one of these days lists two events.                                  *)
C15_Witness ==
  /\ last.op = "home"
  /\ last.mode = "week"
  /\ \E d \in DOMAIN last.page.day_events : \E i \in DOMAIN last.events :
       LET e == last.events[i] IN
       /\ TimesListed(last.page, d, e) = 1
       /\ TimesListed(last.page, d + 1, e) = 1
       /\ e.ends_at = datetime_of(d + 2)
       /\ d + 2 \in Window(last.mode, last.year, last.month, last.anchor)
       /\ TimesListed(last.page, d + 2, e) = 0
       /\ last.page.day_counts[d + 1] = 2

BadForm == <<0, 1, 0, 1>>

(* The cookies that carry no signed token of a stored user. *)
NoSession == {c \in Cookies : c \notin Users}

(* C16: add_event, invite, respond, suggest_time, vote_time and accept_time *)
(* called without a session cookie that resolves to an existing user end in *)
(* LOGIN_REQUIRED and leave the stored state unchanged, whatever their      *)
(* other fields are.                                                        *)
C16_LoginRequired ==
  \A cookie \in NoSession :
    /\ \A description \in {OkText, LongText}, f \in {GoodForm, BadForm} :
         add_event(db, cookie, description, f[1], f[2], f[3], f[4], AllIds)
           = Fail("LOGIN_REQUIRED", db)
    /\ \A event_id \in EventIds :
         /\ invite_to_event(db, cookie, event_id, AllIds) = Fail("LOGIN_REQUIRED", db)
         /\ \A status \in {TxtYes, TxtSoon}, comment \in {OkText, LongText} :
              respond(db, cookie, event_id, status, comment) = Fail("LOGIN_REQUIRED", db)
         /\ \A f \in {GoodForm, BadForm}, comment \in {OkText, LongText} :
              suggest_time(db, cookie, event_id, f[1], f[2], f[3], f[4], comment)
                = Fail("LOGIN_REQUIRED", db)
    /\ \A suggestion_id \in SuggestionIds :
         /\ \A vote \in RawVotes :
              vote_time(db, cookie, suggestion_id, vote) = Fail("LOGIN_REQUIRED", db)
         /\ accept_time(db, cookie, suggestion_id) = Fail("LOGIN_REQUIRED", db)

(* C16 witness: an event with a suggestion is stored, and each handler      *)
(* serves its creator's request and answers LOGIN_REQUIRED to the same      *)
(* request sent with a token of a user that does not exist.                 *)
C16_Witness ==
  \E s \in db.suggestions, e \in db.events, cookie \in LoggedIn :
    LET ghost == NumUsers + 1 IN
    /\ s.event_id = e.id
    /\ get_current_user(cookie) = e.created_by_user_id
    /\ add_event(db, cookie, OkText, 0, 0, 0, 1, AllIds).result = "OK"
    /\ add_event(db, ghost, OkText, 0, 0, 0, 1, AllIds).result = "LOGIN_REQUIRED"
    /\ invite_to_event(db, cookie, e.id, AllIds).result = "OK"
    /\ invite_to_event(db, ghost, e.id, AllIds).result = "LOGIN_REQUIRED"
    /\ respond(db, cookie, e.id, TxtYes, OkText).result = "OK"
    /\ respond(db, NoCookie, e.id, TxtYes, OkText).result = "LOGIN_REQUIRED"
    /\ suggest_time(db, cookie, e.id, 0, 0, 0, 1, OkText).result \in {"OK", "INTEGRITY_ERROR"}
    /\ suggest_time(db, BadSignature, e.id, 0, 0, 0, 1, OkText).result = "LOGIN_REQUIRED"
    /\ vote_time(db, cookie, s.id, TxtUp).result = "OK"
    /\ vote_time(db, 0, s.id, TxtUp).result = "LOGIN_REQUIRED"
    /\ accept_time(db, cookie, s.id).result = "OK"
    /\ accept_time(db, ghost, s.id).result = "LOGIN_REQUIRED"

(* Forms with an end at or before the start, and with one field that does  *)
(* not parse.                                                              *)
BadRanges ==
  {<<0, 1, 0, 1>>, <<0, 2, 0, 1>>, <<BadField, 0, 0, 1>>, <<0, BadField, 0, 1>>,
   <<0, 0, BadField, 1>>, <<0, 0, 0, BadField>>}

RangesInOrder(d) ==
  /\ \A e \in d.events : e.ends_at > e.starts_at
  /\ \A s \in d.suggestions : s.proposed_ends_at > s.proposed_starts_at

(* C17 as claimed: every event ends after it starts and every suggestion    *)
(* proposes an end after its start; add_event and suggest_time with a date  *)
(* or time that does not parse, or with end <= start, end in BAD_RANGE and  *)
(* leave the stored state unchanged, whatever the rest of the request is.   *)
C17_BadRangeAnyCall ==
  /\ RangesInOrder(db)
  /\ \A cookie \in Cookies, f \in BadRanges, text \in {OkText, LongText} :
       /\ add_event(db, cookie, text, f[1], f[2], f[3], f[4], AllIds) = Fail("BAD_RANGE", db)
       /\ \A event_id \in EventIds :
            suggest_time(db, cookie, event_id, f[1], f[2], f[3], f[4], text)
              = Fail("BAD_RANGE", db)

(* C17 as amended: the two orders hold in every state; add_event and        *)
(* suggest_time with such a range leave the stored state unchanged; they    *)
(* end in BAD_RANGE when the caller is logged in, except that add_event     *)
(* ends in DESC_TOO_LONG when the description is longer than MAX_TEXT.      *)
C17_Ranges ==
  /\ RangesInOrder(db)
  /\ \A cookie \in LoggedIn, f \in BadRanges, text \in {OkText, LongText} :
       /\ add_event(db, cookie, text, f[1], f[2], f[3], f[4], AllIds) =
            Fail(IF text = LongText THEN "DESC_TOO_LONG" ELSE "BAD_RANGE", db)
       /\ \A event_id \in EventIds :
            suggest_time(db, cookie, event_id, f[1], f[2], f[3], f[4], text)
              = Fail("BAD_RANGE", db)
  /\ \A cookie \in LoggedOut, f \in BadRanges :
       /\ add_event(db, cookie, OkText, f[1], f[2], f[3], f[4], AllIds).db = db
       /\ \A event_id \in EventIds :
            suggest_time(db, cookie, event_id, f[1], f[2], f[3], f[4], OkText).db = db

(* C17 witness: accept_time has moved an event to a suggested range, a      *)
(* suggestion is stored, and requests of the creator with an end equal to   *)
(* the start and with a time that does not parse end in BAD_RANGE.          *)
C17_Witness ==
  /\ last.op = "accept_time"
  /\ pre.events # db.events
  /\ \E e \in db.events, cookie \in LoggedIn :
       /\ get_current_user(cookie) = e.created_by_user_id
       /\ add_event(db, cookie, OkText, 0, 1, 0, 1, AllIds).result = "BAD_RANGE"
       /\ add_event(db, cookie, OkText, 0, BadField, 0, 0, AllIds).result = "BAD_RANGE"
       /\ suggest_time(db, cookie, e.id, 0, 2, 0, 1, OkText).result = "BAD_RANGE"
       /\ suggest_time(db, cookie, e.id, BadField, 0, 0, 0, OkText).result = "BAD_RANGE"

(* C18: the event of an accepted suggestion starts and ends when the        *)
(* suggestion proposes; and a served request other than accept_time leaves  *)
(* the times of every event it keeps, and the accepted flag of every        *)
(* suggestion it keeps, as they were.                                       *)
C18_AcceptedMatchesEvent ==
  /\ \A s \in db.suggestions :
       s.accepted =>
         \E e \in db.events :
           /\ e.id = s.event_id
           /\ e.starts_at = s.proposed_starts_at
           /\ e.ends_at = s.proposed_ends_at
  /\ last.op \notin {"init", "accept_time"} =>
       /\ \A e \in db.events : \A e0 \in pre.events :
            e.id = e0.id => e.starts_at = e0.starts_at /\ e.ends_at = e0.ends_at
       /\ \A s \in db.suggestions : \A s0 \in pre.suggestions :
            s.id = s0.id => s.accepted = s0.accepted

(* C18 witness: a suggestion that moved its event is accepted, a second     *)
(* suggestion of the event is not, and the last request served was another  *)
(* suggest_time for the event.                                              *)
C18_Witness ==
  /\ last.op = "suggest_time"
  /\ \E s \in db.suggestions, t \in db.suggestions, e \in db.events :
       /\ s.accepted
       /\ ~t.accepted
       /\ t \notin pre.suggestions
       /\ s.event_id = e.id
       /\ t.event_id = e.id
       /\ e.ends_at = s.proposed_ends_at
       /\ e.starts_at = s.proposed_starts_at
       /\ last.event_id = e.id
(* C19: when two accept_time requests of the creator for the two          *)
(* suggestions of one event interleave, every committed state has at most  *)
(* one accepted suggestion of the event and at most one response of the    *)
(* creator, and the event's times are those of each accepted suggestion.   *)
C19_RaceKeepsOneAccepted ==
  \A e \in db.events :
    /\ Cardinality(AcceptedOf(db, e.id)) <= 1
    /\ Cardinality({r \in db.responses :
                      r.event_id = e.id /\ r.user_id = e.created_by_user_id}) <= 1
    /\ \A s \in AcceptedOf(db, e.id) :
         e.starts_at = s.proposed_starts_at /\ e.ends_at = s.proposed_ends_at

====
